---- MODULE Spec2Model ----
(***************************************************************************)
(* A model of chess.com.py: the WebChessGame session (one chess.Board and  *)
(* the list of SAN notations), its Flask routes and the events they emit.  *)
(* The chess.Board operations the session calls (legal_moves, san, push,   *)
(* pop, is_check, ...) are modelled by the rules python-chess implements.  *)
(***************************************************************************)
EXTENDS Integers, Sequences, FiniteSets, TLC

(***************************************************************************)
(* Squares, pieces and moves, as python-chess numbers and names them.      *)
(***************************************************************************)
SQUARES == 0..63

WHITE == TRUE

BLACK == FALSE

FILE_NAMES == <<"a", "b", "c", "d", "e", "f", "g", "h">>

RANK_NAMES == <<"1", "2", "3", "4", "5", "6", "7", "8">>

square_file(s) == s % 8

square_rank(s) == s \div 8

square(f, r) == r * 8 + f

SQUARE_NAMES == [s \in SQUARES |-> FILE_NAMES[square_file(s) + 1] \o RANK_NAMES[square_rank(s) + 1]]

square_name(s) == SQUARE_NAMES[s]

\* chess.parse_square: the index of the name in SQUARE_NAMES; a name that is
\* not in the list raises ValueError.
SQUARE_INDEX ==
    [n \in {SQUARE_NAMES[s] : s \in SQUARES} |-> CHOOSE s \in SQUARES : SQUARE_NAMES[s] = n]

parse_square(name) ==
    IF name \in DOMAIN SQUARE_INDEX
    THEN [raised |-> FALSE, value |-> SQUARE_INDEX[name]]
    ELSE [raised |-> TRUE, value |-> 0]

\* Piece symbols (Piece.symbol()): upper case for white, lower case for black.
None == "-"

WhiteSymbols == {"P", "N", "B", "R", "Q", "K"}

BlackSymbols == {"p", "n", "b", "r", "q", "k"}

\* The piece type of a symbol, named by its lower-case letter (PIECE_SYMBOLS).
piece_type ==
    [x \in WhiteSymbols \cup BlackSymbols |->
        CASE x \in {"P", "p"} -> "p"
          [] x \in {"N", "n"} -> "n"
          [] x \in {"B", "b"} -> "b"
          [] x \in {"R", "r"} -> "r"
          [] x \in {"Q", "q"} -> "q"
          [] x \in {"K", "k"} -> "k"]

symbol(t, color) ==
    IF color = WHITE
    THEN CASE t = "p" -> "P" [] t = "n" -> "N" [] t = "b" -> "B"
           [] t = "r" -> "R" [] t = "q" -> "Q" [] t = "k" -> "K"
    ELSE t

color_at(pieces, s) == pieces[s] \in WhiteSymbols

occupied(pieces, s) == pieces[s] # None

occupied_co(pieces, color, s) ==
    IF color = WHITE THEN pieces[s] \in WhiteSymbols ELSE pieces[s] \in BlackSymbols

\* chess.Move(from_square, to_square, promotion=None)
Move(from_sq, to_sq, promotion) ==
    [from_square |-> from_sq, to_square |-> to_sq, promotion |-> promotion]

Abs(n) == IF n < 0 THEN -n ELSE n

\* The squares strictly between two squares of one rank, file or diagonal.
BETWEEN ==
    [a \in SQUARES |-> [b \in SQUARES |->
        LET df == square_file(b) - square_file(a)
            dr == square_rank(b) - square_rank(a)
            n  == IF Abs(df) > Abs(dr) THEN Abs(df) ELSE Abs(dr)
        IN  IF n > 1 /\ (df = 0 \/ dr = 0 \/ Abs(df) = Abs(dr))
            THEN {square(square_file(a) + k * (df \div n), square_rank(a) + k * (dr \div n)) :
                    k \in 1..(n - 1)}
            ELSE {}]]

\* The shape of a step from a to b: "n" a knight's jump, "k" one king step,
\* "d" a diagonal, "l" a rank or file line; a king step is a "d" or "l" too.
KnightStep ==
    [a \in SQUARES |-> {b \in SQUARES :
        LET df == Abs(square_file(b) - square_file(a))
            dr == Abs(square_rank(b) - square_rank(a))
        IN  (df = 1 /\ dr = 2) \/ (df = 2 /\ dr = 1)}]

KingStep ==
    [a \in SQUARES |-> {b \in SQUARES :
        LET df == Abs(square_file(b) - square_file(a))
            dr == Abs(square_rank(b) - square_rank(a))
        IN  b # a /\ df <= 1 /\ dr <= 1}]

DiagLine ==
    [a \in SQUARES |-> {b \in SQUARES :
        b # a /\ Abs(square_file(b) - square_file(a)) = Abs(square_rank(b) - square_rank(a))}]

RankFileLine ==
    [a \in SQUARES |-> {b \in SQUARES :
        b # a /\ (square_file(b) = square_file(a) \/ square_rank(b) = square_rank(a))}]

\* The squares a pawn of the colour attacks from a.
PawnAttacks ==
    [color \in BOOLEAN |-> [a \in SQUARES |-> {b \in SQUARES :
        /\ Abs(square_file(b) - square_file(a)) = 1
        /\ square_rank(b) - square_rank(a) = (IF color = WHITE THEN 1 ELSE -1)}]]

QueenLine == [a \in SQUARES |-> DiagLine[a] \cup RankFileLine[a]]

\* The squares a piece of the symbol could attack from a on an empty board.
Reach(x, a) ==
    CASE x \in {"P", "p"} -> PawnAttacks[x = "P"][a]
      [] x \in {"N", "n"} -> KnightStep[a]
      [] x \in {"K", "k"} -> KingStep[a]
      [] x \in {"B", "b"} -> DiagLine[a]
      [] x \in {"R", "r"} -> RankFileLine[a]
      [] x \in {"Q", "q"} -> QueenLine[a]
      [] OTHER -> {}

\* Board.attacks(a) contains b: the piece on a attacks square b; a bishop,
\* rook or queen attacks along a line up to and including the first piece.
attacks(pieces, a, b) ==
    /\ b \in Reach(pieces[a], a)
    /\ \A m \in BETWEEN[a][b] : pieces[m] = None

\* The squares an attacker of b can stand on.
AttackerSquares == [b \in SQUARES |-> QueenLine[b] \cup KnightStep[b]]

\* Board.is_attacked_by(color, square)
is_attacked_by(pieces, color, b) ==
    \E a \in AttackerSquares[b] : occupied_co(pieces, color, a) /\ attacks(pieces, a, b)

\* Board.king(color): the square of the king, or no square.
KingSquares(pieces, color) == {s \in SQUARES : pieces[s] = symbol("k", color)}

\* Board.is_check(): the king of the side to move is attacked.
InCheck(pieces, color) ==
    \E k \in KingSquares(pieces, color) : is_attacked_by(pieces, ~color, k)

(***************************************************************************)
(* chess.Board: the position (piece placement, side to move, castling      *)
(* rights as the set of rook squares, en-passant square as a set of at     *)
(* most one square, the two clocks), the move stack and the stack of the   *)
(* positions the moves were made in.                                       *)
(***************************************************************************)
BACK_RANK == <<"r", "n", "b", "q", "k", "b", "n", "r">>

STARTING_PIECES ==
    [s \in SQUARES |->
        CASE square_rank(s) = 0 -> symbol(BACK_RANK[square_file(s) + 1], WHITE)
          [] square_rank(s) = 1 -> "P"
          [] square_rank(s) = 6 -> "p"
          [] square_rank(s) = 7 -> symbol(BACK_RANK[square_file(s) + 1], BLACK)
          [] OTHER -> None]

\* chess.Board()
Board ==
    [pieces |-> STARTING_PIECES, turn |-> WHITE,
     castling_rights |-> {square(0, 0), square(7, 0), square(0, 7), square(7, 7)},
     ep_square |-> {}, halfmove_clock |-> 0, fullmove_number |-> 1,
     move_stack |-> <<>>, stack |-> <<>>]

\* Board._board_state(): what pop() restores.
board_state(b) ==
    [pieces |-> b.pieces, turn |-> b.turn, castling_rights |-> b.castling_rights,
     ep_square |-> b.ep_square, halfmove_clock |-> b.halfmove_clock,
     fullmove_number |-> b.fullmove_number]

back_rank(color) == IF color = WHITE THEN 0 ELSE 7

\* Board.clean_castling_rights(): the rights whose rook stands on its corner
\* and whose king stands on its e-square.
clean_castling_rights(b) ==
    {r \in b.castling_rights :
        \E color \in BOOLEAN :
            /\ r \in {square(0, back_rank(color)), square(7, back_rank(color))}
            /\ b.pieces[r] = symbol("r", color)
            /\ b.pieces[square(4, back_rank(color))] = symbol("k", color)}

\* A king's move of two files from its e-square is castling (Board.is_castling).
is_castling(pieces, move) ==
    /\ pieces[move.from_square] \in {"K", "k"}
    /\ Abs(square_file(move.to_square) - square_file(move.from_square)) > 1

\* Board.is_en_passant(move)
is_en_passant(pieces, ep_square, move) ==
    /\ move.to_square \in ep_square
    /\ pieces[move.from_square] \in {"P", "p"}
    /\ Abs(move.to_square - move.from_square) \in {7, 9}
    /\ pieces[move.to_square] = None

\* The piece placement after push(move): the moved piece leaves its square,
\* an en-passant capture removes the pawn behind the target, a promotion
\* changes the piece type, castling moves the rook next to the king.
PiecesAfter(pieces, ep_square, turn, move) ==
    LET f  == move.from_square
        t  == move.to_square
        x  == pieces[f]
        ep == is_en_passant(pieces, ep_square, move)
        capture_square == IF turn = WHITE THEN t - 8 ELSE t + 8
        cs == is_castling(pieces, move)
        a_side == square_file(t) < square_file(f)
        rook_from == square(IF a_side THEN 0 ELSE 7, square_rank(f))
        rook_to == square(IF a_side THEN 3 ELSE 5, square_rank(f))
        placed == IF move.promotion # None THEN symbol(move.promotion, turn)
                  ELSE symbol(piece_type[x], turn)
        moved == [pieces EXCEPT ![f] = None, ![t] = placed]
    IN  IF ep THEN [moved EXCEPT ![capture_square] = None]
        ELSE IF cs THEN [moved EXCEPT ![rook_from] = None, ![rook_to] = symbol("r", turn)]
        ELSE moved

\* Board.is_zeroing(move): a pawn or an opposing piece stands on one of the
\* two squares (a pawn move or a capture).
is_zeroing(b, move) ==
    \E s \in {move.from_square, move.to_square} :
        b.pieces[s] \in {"P", "p"} \/ occupied_co(b.pieces, ~b.turn, s)

\* Board.push(move) for a move whose origin square holds a piece.
push(b, move) ==
    LET f  == move.from_square
        t  == move.to_square
        x  == b.pieces[f]
        diff == t - f
        rights0 == clean_castling_rights(b) \ {f, t}
        rights == IF piece_type[x] = "k"
                  THEN {r \in rights0 : square_rank(r) # back_rank(b.turn)}
                  ELSE rights0
        ep == IF piece_type[x] = "p" /\ diff = 16 /\ square_rank(f) = 1 THEN {f + 8}
              ELSE IF piece_type[x] = "p" /\ diff = -16 /\ square_rank(f) = 6 THEN {f - 8}
              ELSE {}
    IN  [pieces |-> PiecesAfter(b.pieces, b.ep_square, b.turn, move),
         turn |-> ~b.turn,
         castling_rights |-> rights,
         ep_square |-> ep,
         halfmove_clock |-> IF is_zeroing(b, move) THEN 0 ELSE b.halfmove_clock + 1,
         fullmove_number |-> IF b.turn = BLACK THEN b.fullmove_number + 1
                             ELSE b.fullmove_number,
         move_stack |-> Append(b.move_stack, move),
         stack |-> Append(b.stack, board_state(b))]

\* Board.pop() on a non-empty move stack: the position the last move was made in.
pop(b) ==
    LET n == Len(b.stack)
        s == b.stack[n]
    IN  [pieces |-> s.pieces, turn |-> s.turn, castling_rights |-> s.castling_rights,
         ep_square |-> s.ep_square, halfmove_clock |-> s.halfmove_clock,
         fullmove_number |-> s.fullmove_number,
         move_stack |-> SubSeq(b.move_stack, 1, n - 1),
         stack |-> SubSeq(b.stack, 1, n - 1)]

(***************************************************************************)
(* Move generation: Board.legal_moves.                                     *)
(***************************************************************************)
PROMOTION_PIECES == {"q", "r", "b", "n"}

\* The destinations of the pawn on s: one step, two steps from its own
\* second rank, a capture, an en-passant capture.
PawnTargets(b, s) ==
    LET color == b.turn
        fwd == IF color = WHITE THEN 8 ELSE -8
        one == s + fwd
        two == s + 2 * fwd
    IN  {t \in {one} : t \in SQUARES /\ b.pieces[t] = None}
        \cup {t \in {two} : /\ square_rank(s) = (IF color = WHITE THEN 1 ELSE 6)
                            /\ b.pieces[one] = None /\ b.pieces[t] = None}
        \cup {t \in PawnAttacks[color][s] : occupied_co(b.pieces, ~color, t)}
        \cup {t \in PawnAttacks[color][s] :
                /\ t \in b.ep_square /\ b.pieces[t] = None
                /\ square_rank(s) = (IF color = WHITE THEN 4 ELSE 3)}

\* Board.generate_castling_moves(): the squares between are empty and the
\* king neither stands on, passes nor reaches an attacked square.
CastlingMoves(b) ==
    LET color == b.turn
        r == back_rank(color)
        k == square(4, r)
        rights == clean_castling_rights(b)
        free(files) == \A f \in files : b.pieces[square(f, r)] = None
        safe(files) == \A f \in files : ~is_attacked_by(b.pieces, ~color, square(f, r))
    IN  {Move(k, square(6, r), None) : x \in
            {y \in {1} : square(7, r) \in rights /\ free({5, 6}) /\ safe({4, 5, 6})}}
        \cup {Move(k, square(2, r), None) : x \in
            {y \in {1} : square(0, r) \in rights /\ free({1, 2, 3}) /\ safe({4, 3, 2})}}

\* The pseudo-legal moves of the piece on s, if it is of the side to move.
MovesFrom(b, s) ==
    LET x == b.pieces[s]
    IN  IF ~occupied_co(b.pieces, b.turn, s) THEN {}
        ELSE IF piece_type[x] = "p"
        THEN UNION {{Move(s, t, p) : p \in
                        (IF square_rank(t) = back_rank(~b.turn)
                         THEN PROMOTION_PIECES ELSE {None})} :
                    t \in PawnTargets(b, s)}
        ELSE {Move(s, t, None) : t \in {u \in Reach(x, s) :
                    attacks(b.pieces, s, u) /\ ~occupied_co(b.pieces, b.turn, u)}}
             \cup (IF piece_type[x] = "k" THEN CastlingMoves(b) ELSE {})

\* Board.pseudo_legal_moves
PseudoLegalMoves(b) == UNION {MovesFrom(b, s) : s \in SQUARES}

\* Board.is_into_check(move): the mover's king is attacked after the move.
is_into_check(b, move) ==
    InCheck(PiecesAfter(b.pieces, b.ep_square, b.turn, move), b.turn)

\* Board.legal_moves as a set of moves.
LegalMoves(b) == {m \in PseudoLegalMoves(b) : ~is_into_check(b, m)}

\* The legal moves of the piece on s.
LegalMovesFrom(b, s) == {m \in MovesFrom(b, s) : ~is_into_check(b, m)}

\* move in Board.legal_moves (Board.is_legal)
is_legal(b, move) == move \in MovesFrom(b, move.from_square) /\ ~is_into_check(b, move)

\* any(Board.legal_moves)
any_legal_move(b) == \E s \in SQUARES : \E m \in MovesFrom(b, s) : ~is_into_check(b, m)

is_check(b) == InCheck(b.pieces, b.turn)

\* Board.is_checkmate()
is_checkmate(b) == is_check(b) /\ ~any_legal_move(b)

\* Board.is_stalemate()
is_stalemate(b) == ~is_check(b) /\ ~any_legal_move(b)

(***************************************************************************)
(* Board.san(move): the notation of a legal move in the position it is     *)
(* played in.                                                              *)
(***************************************************************************)
\* Board.is_capture(move)
is_capture(b, move) ==
    \/ occupied_co(b.pieces, ~b.turn, move.to_square)
    \/ is_en_passant(b.pieces, b.ep_square, move)

upper(t) == symbol(t, WHITE)

\* The origin squares of the other legal moves of the same piece type to the
\* same square.
Others(b, move) ==
    {s \in SQUARES :
        /\ s # move.from_square
        /\ b.pieces[s] = b.pieces[move.from_square]
        /\ \E c \in LegalMovesFrom(b, s) : c.to_square = move.to_square}

Disambiguation(b, move) ==
    LET others == Others(b, move)
        f == move.from_square
        row == \E o \in others : square_file(o) = square_file(f)
        column == (\E o \in others : square_rank(o) = square_rank(f)) \/ ~row
    IN  IF others = {} THEN ""
        ELSE (IF column THEN FILE_NAMES[square_file(f) + 1] ELSE "")
             \o (IF row THEN RANK_NAMES[square_rank(f) + 1] ELSE "")

\* Board._algebraic_without_suffix(move)
algebraic_without_suffix(b, move) ==
    LET x == b.pieces[move.from_square]
        capture == is_capture(b, move)
    IN  IF is_castling(b.pieces, move)
        THEN (IF square_file(move.to_square) < square_file(move.from_square)
              THEN "O-O-O" ELSE "O-O")
        ELSE (IF piece_type[x] = "p"
              THEN (IF capture THEN FILE_NAMES[square_file(move.from_square) + 1] ELSE "")
              ELSE upper(piece_type[x]) \o Disambiguation(b, move))
             \o (IF capture THEN "x" ELSE "")
             \o SQUARE_NAMES[move.to_square]
             \o (IF move.promotion # None THEN "=" \o upper(move.promotion) ELSE "")

\* The suffix of a notation, read off the position after the move.
san_suffix(after) == IF is_checkmate(after) THEN "#" ELSE IF is_check(after) THEN "+" ELSE ""

\* Board.san(move)
san(b, move) == algebraic_without_suffix(b, move) \o san_suffix(push(b, move))

(***************************************************************************)
(* The ends of a game that Board.is_game_over() counts.                    *)
(***************************************************************************)
DARK_SQUARES == {s \in SQUARES : (square_file(s) + square_rank(s)) % 2 = 0}

\* Board.has_insufficient_material(color)
has_insufficient_material(pieces, color) ==
    LET own == {s \in SQUARES : occupied_co(pieces, color, s)}
        has(set, types) == \E s \in set : piece_type[pieces[s]] \in types
        all == {s \in SQUARES : pieces[s] # None}
        bishops == {s \in all : piece_type[pieces[s]] = "b"}
    IN  IF has(own, {"p", "r", "q"}) THEN FALSE
        ELSE IF has(own, {"n"})
        THEN Cardinality(own) <= 2 /\ ~has(all \ own, {"p", "n", "b", "r"})
        ELSE IF has(own, {"b"})
        THEN /\ (bishops \cap DARK_SQUARES = {} \/ bishops \ DARK_SQUARES = {})
             /\ ~has(all, {"p", "n"})
        ELSE TRUE

\* Board.is_insufficient_material()
is_insufficient_material(b) ==
    \A color \in BOOLEAN : has_insufficient_material(b.pieces, color)

\* Board.has_legal_en_passant()
has_legal_en_passant(b) ==
    /\ b.ep_square # {}
    /\ \E e \in b.ep_square : \E s \in PawnAttacks[~b.turn][e] :
        \E m \in LegalMovesFrom(b, s) : is_en_passant(b.pieces, b.ep_square, m)

\* Board._transposition_key()
transposition_key(b) ==
    <<b.pieces, b.turn, clean_castling_rights(b),
      IF has_legal_en_passant(b) THEN b.ep_square ELSE {}>>

\* Board.is_irreversible(move), in the position the move is made in.
is_irreversible(b, move) ==
    \/ is_zeroing(b, move)
    \/ {move.from_square, move.to_square} \cap clean_castling_rights(b) # {}
    \/ (b.pieces[move.from_square] \in {"K", "k"}
        /\ \E r \in clean_castling_rights(b) : square_rank(r) = back_rank(b.turn))
    \/ has_legal_en_passant(b)

\* Board.is_repetition(count): walk the stack back from the last move, up to
\* the first irreversible move, counting the positions with the current key.
RECURSIVE RepetitionWalk(_, _, _, _)
RepetitionWalk(b, key, i, count) ==
    IF count <= 1 THEN TRUE
    ELSE IF i < count - 1 THEN FALSE
    ELSE IF is_irreversible(b.stack[i], b.move_stack[i]) THEN FALSE
    ELSE RepetitionWalk(b, key, i - 1,
                        IF transposition_key(b.stack[i]) = key THEN count - 1 ELSE count)

is_repetition(b, count) == RepetitionWalk(b, transposition_key(b), Len(b.move_stack), count)

is_fivefold_repetition(b) == is_repetition(b, 5)

is_seventyfive_moves(b) == b.halfmove_clock >= 150 /\ any_legal_move(b)

\* Board.is_game_over(): checkmate, insufficient material, no legal move,
\* the seventy-five-move rule or fivefold repetition.
is_game_over(b) ==
    \/ ~any_legal_move(b)
    \/ is_insufficient_material(b)
    \/ is_seventyfive_moves(b)
    \/ is_fivefold_repetition(b)

(***************************************************************************)
(* WebChessGame: the session's methods as functions of the board and the   *)
(* move history.                                                           *)
(***************************************************************************)
color_name(color) == IF color = WHITE THEN "white" ELSE "black"

\* WebChessGame.get_board_state: square name -> piece symbol and colour, for
\* the occupied squares.
get_board_state(b) ==
    [n \in {SQUARE_NAMES[s] : s \in {q \in SQUARES : b.pieces[q] # None}} |->
        LET s == SQUARE_INDEX[n]
        IN  [piece |-> b.pieces[s], color |-> color_name(color_at(b.pieces, s))]]

\* get_legal_moves_from_square listing the moves of the piece on the square
\* whichever side is to move.
get_legal_moves_from_square_any_color(b, square_name_arg) ==
    LET sq == parse_square(square_name_arg)
    IN  IF sq.raised THEN <<>>
        ELSE IF b.pieces[sq.value] = None THEN <<>>
        ELSE LET own == [b EXCEPT !.turn = color_at(b.pieces, sq.value)]
             IN  [n \in {SQUARE_NAMES[m.to_square] : m \in LegalMovesFrom(own, sq.value)} |->
                    Cardinality({m \in LegalMovesFrom(own, sq.value) :
                                    SQUARE_NAMES[m.to_square] = n})]

\* WebChessGame.get_legal_moves_from_square: a name that does not parse
\* raises inside the try and yields the empty list.  The list holds a
\* destination once for every legal move to it (four times for a
\* promotion); it is kept as the bag of its elements, the order being that
\* of the move generator.
get_legal_moves_from_square(b, square_name_arg) ==
    LET sq == parse_square(square_name_arg)
    IN  IF sq.raised THEN <<>>
        ELSE [n \in {SQUARE_NAMES[m.to_square] : m \in LegalMovesFrom(b, sq.value)} |->
                Cardinality({m \in LegalMovesFrom(b, sq.value) : SQUARE_NAMES[m.to_square] = n})]

\* str.lower() on the promotion letters a request carries.
lower(x) ==
    CASE x = "Q" -> "q" [] x = "R" -> "r" [] x = "B" -> "b" [] x = "N" -> "n" [] OTHER -> x

\* A Python value that is not a str (a JSON number): .lower() raises on it.
NotAString == "<number>"

\* Python truthiness of the promotion argument: None and "" are false.
truthy(x) == x # None /\ x # ""

\* make_move_try with the move pushed before it is looked up in the legal
\* moves, and not taken back when it is not among them.
make_move_try_push_first(b, h, from_square, to_square, promotion) ==
    LET from_sq == parse_square(from_square)
        to_sq == parse_square(to_square)
        raise(name) == [raised |-> TRUE, success |-> FALSE, message |-> name,
                        board |-> b, move_history |-> h]
        move == IF truthy(promotion) /\ lower(promotion) \in PROMOTION_PIECES
                THEN Move(from_sq.value, to_sq.value, lower(promotion))
                ELSE Move(from_sq.value, to_sq.value, None)
    IN  IF from_sq.raised THEN raise("'" \o from_square \o "' is not in list")
        ELSE IF to_sq.raised THEN raise("'" \o to_square \o "' is not in list")
        ELSE IF promotion = NotAString
        THEN raise("'int' object has no attribute 'lower'")
        ELSE IF is_legal(b, move)
        THEN [raised |-> FALSE, success |-> TRUE, message |-> san(b, move),
              board |-> push(b, move), move_history |-> Append(h, san(b, move))]
        ELSE [raised |-> FALSE, success |-> FALSE, message |-> "Illegal move",
              board |-> IF b.pieces[move.from_square] # None THEN push(b, move) ELSE b,
              move_history |-> h]

\* make_move_try with the squares of the move appended to the history in
\* place of its notation.
make_move_try_uci_history(b, h, from_square, to_square, promotion) ==
    LET from_sq == parse_square(from_square)
        to_sq == parse_square(to_square)
        raise(name) == [raised |-> TRUE, success |-> FALSE, message |-> name,
                        board |-> b, move_history |-> h]
        move == IF truthy(promotion) /\ lower(promotion) \in PROMOTION_PIECES
                THEN Move(from_sq.value, to_sq.value, lower(promotion))
                ELSE Move(from_sq.value, to_sq.value, None)
    IN  IF from_sq.raised THEN raise("'" \o from_square \o "' is not in list")
        ELSE IF to_sq.raised THEN raise("'" \o to_square \o "' is not in list")
        ELSE IF promotion = NotAString
        THEN raise("'int' object has no attribute 'lower'")
        ELSE IF is_legal(b, move)
        THEN [raised |-> FALSE, success |-> TRUE, message |-> san(b, move),
              board |-> push(b, move),
              move_history |-> Append(h, from_square \o to_square)]
        ELSE [raised |-> FALSE, success |-> FALSE, message |-> "Illegal move",
              board |-> b, move_history |-> h]

\* make_move_try promoting to a knight when a pawn reaches its last rank
\* with no letter of q, r, b, n.
make_move_try_default_knight(b, h, from_square, to_square, promotion) ==
    LET from_sq == parse_square(from_square)
        to_sq == parse_square(to_square)
        raise(name) == [raised |-> TRUE, success |-> FALSE, message |-> name,
                        board |-> b, move_history |-> h]
        move == IF truthy(promotion) /\ lower(promotion) \in PROMOTION_PIECES
                THEN Move(from_sq.value, to_sq.value, lower(promotion))
                ELSE IF /\ b.pieces[from_sq.value] \in {"P", "p"}
                        /\ square_rank(to_sq.value) \in {0, 7}
                THEN Move(from_sq.value, to_sq.value, "n")
                ELSE Move(from_sq.value, to_sq.value, None)
    IN  IF from_sq.raised THEN raise("'" \o from_square \o "' is not in list")
        ELSE IF to_sq.raised THEN raise("'" \o to_square \o "' is not in list")
        ELSE IF promotion = NotAString
        THEN raise("'int' object has no attribute 'lower'")
        ELSE IF is_legal(b, move)
        THEN [raised |-> FALSE, success |-> TRUE, message |-> san(b, move),
              board |-> push(b, move), move_history |-> Append(h, san(b, move))]
        ELSE [raised |-> FALSE, success |-> FALSE, message |-> "Illegal move",
              board |-> b, move_history |-> h]

\* make_move_try looking the move up in the pseudo-legal moves: a move that
\* leaves the own king attacked is accepted.
make_move_try_pseudo_legal(b, h, from_square, to_square, promotion) ==
    LET from_sq == parse_square(from_square)
        to_sq == parse_square(to_square)
        raise(name) == [raised |-> TRUE, success |-> FALSE, message |-> name,
                        board |-> b, move_history |-> h]
        move == IF truthy(promotion) /\ lower(promotion) \in PROMOTION_PIECES
                THEN Move(from_sq.value, to_sq.value, lower(promotion))
                ELSE Move(from_sq.value, to_sq.value, None)
    IN  IF from_sq.raised THEN raise("'" \o from_square \o "' is not in list")
        ELSE IF to_sq.raised THEN raise("'" \o to_square \o "' is not in list")
        ELSE IF promotion = NotAString
        THEN raise("'int' object has no attribute 'lower'")
        ELSE IF move \in MovesFrom(b, move.from_square)
        THEN [raised |-> FALSE, success |-> TRUE, message |-> "?",
              board |-> push(b, move), move_history |-> Append(h, "?")]
        ELSE [raised |-> FALSE, success |-> FALSE, message |-> "Illegal move",
              board |-> b, move_history |-> h]

\* make_move_try attaching the promotion piece only to a pawn move that
\* reaches the last rank.
make_move_try_promotion_if_pawn(b, h, from_square, to_square, promotion) ==
    LET from_sq == parse_square(from_square)
        to_sq == parse_square(to_square)
        raise(name) == [raised |-> TRUE, success |-> FALSE, message |-> name,
                        board |-> b, move_history |-> h]
        move == IF /\ truthy(promotion) /\ lower(promotion) \in PROMOTION_PIECES
                   /\ b.pieces[from_sq.value] \in {"P", "p"}
                   /\ square_rank(to_sq.value) \in {0, 7}
                THEN Move(from_sq.value, to_sq.value, lower(promotion))
                ELSE Move(from_sq.value, to_sq.value, None)
    IN  IF from_sq.raised THEN raise("'" \o from_square \o "' is not in list")
        ELSE IF to_sq.raised THEN raise("'" \o to_square \o "' is not in list")
        ELSE IF promotion = NotAString
        THEN raise("'int' object has no attribute 'lower'")
        ELSE IF is_legal(b, move)
        THEN [raised |-> FALSE, success |-> TRUE, message |-> san(b, move),
              board |-> push(b, move), move_history |-> Append(h, san(b, move))]
        ELSE [raised |-> FALSE, success |-> FALSE, message |-> "Illegal move",
              board |-> b, move_history |-> h]

\* The body of make_move's try block: what it returns, or the exception it
\* raises, with the board and the history as it leaves them.
make_move_try(b, h, from_square, to_square, promotion) ==
    LET from_sq == parse_square(from_square)
        to_sq == parse_square(to_square)
        raise(name) == [raised |-> TRUE, success |-> FALSE, message |-> name,
                        board |-> b, move_history |-> h]
        move == IF truthy(promotion) /\ lower(promotion) \in PROMOTION_PIECES
                THEN Move(from_sq.value, to_sq.value, lower(promotion))
                ELSE Move(from_sq.value, to_sq.value, None)
    IN  IF from_sq.raised THEN raise("'" \o from_square \o "' is not in list")
        ELSE IF to_sq.raised THEN raise("'" \o to_square \o "' is not in list")
        ELSE IF promotion = NotAString
        THEN raise("'int' object has no attribute 'lower'")
        ELSE IF is_legal(b, move)
        THEN LET move_san == san(b, move)
             IN  [raised |-> FALSE, success |-> TRUE, message |-> move_san,
                  board |-> push(b, move), move_history |-> Append(h, move_san)]
        ELSE [raised |-> FALSE, success |-> FALSE, message |-> "Illegal move",
              board |-> b, move_history |-> h]

\* except Exception as e: return False, str(e)
except_Exception(r) ==
    IF r.raised THEN [r EXCEPT !.raised = FALSE, !.success = FALSE] ELSE r

\* WebChessGame.make_move: the try block under its except clause.
make_move(b, h, from_square, to_square, promotion) ==
    except_Exception(make_move_try(b, h, from_square, to_square, promotion))

\* str.title() on a colour name.
title(w) == CASE w = "white" -> "White" [] w = "black" -> "Black"

\* result_fields with the side to move named as the winner.
result_fields_side_to_move(turn, checkmate, stalemate, insufficient) ==
    IF checkmate
    THEN [winner |-> color_name(turn),
          result |-> title(color_name(turn)) \o " wins by checkmate!"]
    ELSE IF stalemate THEN [result |-> "Draw by stalemate!"]
    ELSE IF insufficient THEN [result |-> "Draw by insufficient material!"]
    ELSE <<>>

\* The keys get_game_status adds when the game has ended in one of the
\* three ways it names; no key otherwise.
result_fields(turn, checkmate, stalemate, insufficient) ==
    IF checkmate
    THEN [winner |-> IF turn = WHITE THEN "black" ELSE "white",
          result |-> title(IF turn = WHITE THEN "black" ELSE "white") \o " wins by checkmate!"]
    ELSE IF stalemate THEN [result |-> "Draw by stalemate!"]
    ELSE IF insufficient THEN [result |-> "Draw by insufficient material!"]
    ELSE <<>>

\* get_game_status announcing the win on a check that is not mate.
get_game_status_result_on_check(b, h) ==
    [turn |-> color_name(b.turn),
     is_check |-> is_check(b),
     is_checkmate |-> is_checkmate(b),
     is_stalemate |-> is_stalemate(b),
     is_game_over |-> is_game_over(b),
     move_count |-> Len(h),
     last_move |-> IF h # <<>> THEN h[Len(h)] ELSE None]
    @@ result_fields(b.turn, is_check(b), is_stalemate(b), is_insufficient_material(b))

\* get_game_status with is_stalemate set whenever there is no legal move.
get_game_status_stalemate_no_moves(b, h) ==
    [turn |-> color_name(b.turn),
     is_check |-> is_check(b),
     is_checkmate |-> is_checkmate(b),
     is_stalemate |-> ~any_legal_move(b),
     is_game_over |-> is_game_over(b),
     move_count |-> Len(h),
     last_move |-> IF h # <<>> THEN h[Len(h)] ELSE None]
    @@ (IF is_checkmate(b)
        THEN [winner |-> IF b.turn = WHITE THEN "black" ELSE "white",
              result |-> title(IF b.turn = WHITE THEN "black" ELSE "white")
                         \o " wins by checkmate!"]
        ELSE IF ~any_legal_move(b) THEN [result |-> "Draw by stalemate!"]
        ELSE IF is_insufficient_material(b) THEN [result |-> "Draw by insufficient material!"]
        ELSE <<>>)

\* WebChessGame.get_game_status: winner and result are keys of the status
\* only in the branches that set them.
get_game_status(b, h) ==
    [turn |-> color_name(b.turn),
     is_check |-> is_check(b),
     is_checkmate |-> is_checkmate(b),
     is_stalemate |-> is_stalemate(b),
     is_game_over |-> is_game_over(b),
     move_count |-> Len(h),
     last_move |-> IF h # <<>> THEN h[Len(h)] ELSE None]
    @@ result_fields(b.turn, is_checkmate(b), is_stalemate(b), is_insufficient_material(b))

\* undo_move that keeps the first move of the game.
undo_move_keeps_first(b, h) ==
    IF Len(h) > 1
    THEN [success |-> TRUE, board |-> pop(b), move_history |-> SubSeq(h, 1, Len(h) - 1)]
    ELSE [success |-> FALSE, board |-> b, move_history |-> h]

\* undo_move that shortens the history and leaves the board as it is.
undo_move_keeps_board(b, h) ==
    IF h # <<>>
    THEN [success |-> TRUE, board |-> b, move_history |-> SubSeq(h, 1, Len(h) - 1)]
    ELSE [success |-> FALSE, board |-> b, move_history |-> h]

\* undo_move that reports success on an empty history too.
undo_move_always_true(b, h) ==
    IF h # <<>>
    THEN [success |-> TRUE, board |-> pop(b), move_history |-> SubSeq(h, 1, Len(h) - 1)]
    ELSE [success |-> TRUE, board |-> b, move_history |-> h]

\* WebChessGame.undo_move
undo_move(b, h) ==
    IF h # <<>>
    THEN [success |-> TRUE, board |-> pop(b), move_history |-> SubSeq(h, 1, Len(h) - 1)]
    ELSE [success |-> FALSE, board |-> b, move_history |-> h]

\* reset_game that clears the history and keeps the board.
reset_game_keeps_board(b, h) == [board |-> b, move_history |-> <<>>]

\* reset_game that replaces the board and keeps the history.
reset_game_keeps_history(b, h) == [board |-> Board, move_history |-> h]

\* WebChessGame.reset_game
reset_game(b, h) == [board |-> Board, move_history |-> <<>>]

(***************************************************************************)
(* The requests of the clients.  The clients replay recorded games, leave  *)
(* a game by at most MaxOffScript moves of their own, and send requests    *)
(* that cannot succeed.                                                    *)
(***************************************************************************)
MaxOffScript == 1

Req(f, t, p) == [from |-> f, to |-> t, promotion |-> p]

\* Fool's mate.
FoolsMate ==
    <<Req("f2", "f3", None), Req("e7", "e5", None), Req("g2", "g4", None), Req("d8", "h4", None)>>

\* Scholar's mate.
ScholarsMate ==
    <<Req("e2", "e4", None), Req("e7", "e5", None), Req("d1", "h5", None), Req("b8", "c6", None),
      Req("f1", "c4", None), Req("g8", "f6", None), Req("h5", "f7", None)>>

\* The shortest stalemate (Sam Loyd).
LoydStalemate ==
    <<Req("e2", "e3", None), Req("a7", "a5", None), Req("d1", "h5", None), Req("a8", "a6", None),
      Req("h5", "a5", None), Req("h7", "h5", None), Req("h2", "h4", None), Req("a6", "h6", None),
      Req("a5", "c7", None), Req("f7", "f6", None), Req("c7", "d7", None), Req("e8", "f7", None),
      Req("d7", "b7", None), Req("d8", "d3", None), Req("b7", "b8", None), Req("d3", "h7", None),
      Req("b8", "c8", None), Req("f7", "g6", None), Req("c8", "e6", None)>>

\* An en-passant capture and two promotions.
PawnRace ==
    <<Req("h2", "h4", None), Req("a7", "a5", None), Req("h4", "h5", None), Req("g7", "g5", None),
      Req("h5", "g6", None), Req("a5", "a4", None), Req("g6", "g7", None), Req("a4", "a3", None),
      Req("g7", "h8", "Q"), Req("a3", "b2", None), Req("h8", "g8", None), Req("b2", "a1", "n")>>

\* Both sides castle.
CastleBoth ==
    <<Req("g1", "f3", None), Req("g8", "f6", None), Req("g2", "g3", None), Req("g7", "g6", None),
      Req("f1", "g2", None), Req("f8", "g7", None), Req("e1", "g1", None), Req("e8", "g8", None)>>

\* The knights go out and back until the starting position has occurred
\* five times.
Shuffle == <<Req("g1", "f3", None), Req("g8", "f6", None), Req("f3", "g1", None), Req("f6", "g8", None)>>

KnightShuffle == Shuffle \o Shuffle \o Shuffle \o Shuffle

Games == {FoolsMate, ScholarsMate, LoydStalemate, PawnRace, CastleBoth, KnightShuffle}

\* The move a scripted request stands for.
ScriptMove(r) ==
    Move(SQUARE_INDEX[r.from], SQUARE_INDEX[r.to],
         IF r.promotion = None THEN None ELSE lower(r.promotion))

GameMoves == [g \in Games |-> [i \in 1..Len(g) |-> ScriptMove(g[i])]]

\* The move stack is the first moves of the game.
Follows(ms, game) ==
    /\ Len(ms) <= Len(game)
    /\ \A i \in 1..Len(ms) : ms[i] = GameMoves[game][i]

\* The number of moves on the stack since the clients left every game.
OffScript(ms) ==
    Len(ms) - CHOOSE k \in 0..Len(ms) :
        /\ \E g \in Games : Follows(SubSeq(ms, 1, k), g)
        /\ \A j \in (k + 1)..Len(ms) : ~\E g \in Games : Follows(SubSeq(ms, 1, j), g)

\* Moves of the clients' own.
FreeRequests == {Req("d2", "d4", None), Req("d7", "d5", None)}

\* Requests that cannot succeed, or succeed only where a pawn promotes.
ProbeRequests ==
    {Req("a2", "a5", None), Req("z9", "e4", None), Req("e2", "", None), Req("e2", "e4", "q"),
     Req("e4", "e5", NotAString), Req("g7", "h8", None), Req("g7", "h8", "x")}

\* The requests the clients may send to /api/move with this board.
MoveRequests(b) ==
    ProbeRequests
    \cup {g[Len(b.move_stack) + 1] : g \in {x \in Games :
            Len(x) > Len(b.move_stack) /\ Follows(b.move_stack, x)}}
    \cup (IF OffScript(b.move_stack) < MaxOffScript THEN FreeRequests ELSE {})

\* The square names the clients ask the legal destinations of.
SquareRequests == {"e2", "e4", "g7", "z9"}

(***************************************************************************)
(* The state: the global game (line 119), the response of the request      *)
(* handled last and the events that request emitted to the observers.      *)
(***************************************************************************)
\* The handler threads of the concurrent runs.
NumHandlers == 2

Handlers == 1..NumHandlers

\* A handler that is not handling a request.
Idle == [pc |-> "idle", route |-> "none", req |-> Req(None, None, None),
         success |-> FALSE, message |-> None, snapshot |-> <<>>]

\* threads[t] is the position of handler t in its view function and its
\* local variables; it matters only where requests are handled concurrently.
VARIABLES board, move_history, response, emitted, threads

vars == <<board, move_history, response, emitted, threads>>

Init ==
    /\ board = Board
    /\ move_history = <<>>
    /\ response = [route |-> "none"]
    /\ emitted = <<>>
    /\ threads = [t \in Handlers |-> Idle]

Event(name, payload) == [event |-> name, payload |-> payload]

\* The body of the three mutating routes' responses: the board and the
\* status, read from the game after the operation.
Payload(b, h) == [board |-> get_board_state(b), status |-> get_game_status(b, h)]

\* What Flask answers when the view function raises.
InternalServerError(route) == [route |-> route, error |-> "500 Internal Server Error"]

\* POST /api/move
ApiMove(from_square, to_square, promotion) ==
    \E r \in {make_move(board, move_history, from_square, to_square, promotion)} :
        /\ board' = r.board
        /\ move_history' = r.move_history
        /\ response' = IF r.raised THEN InternalServerError("move")
                       ELSE [route |-> "move", success |-> r.success, message |-> r.message]
                            @@ Payload(r.board, r.move_history)
        /\ emitted' = IF ~r.raised /\ r.success THEN <<Event("move_made", response')>> ELSE <<>>
        /\ UNCHANGED threads

\* /api/undo emitting move_undone whether or not a move was undone.
ApiUndo_always_emits ==
    \E r \in {undo_move(board, move_history)} :
        /\ board' = r.board
        /\ move_history' = r.move_history
        /\ response' = [route |-> "undo", success |-> r.success]
                       @@ Payload(r.board, r.move_history)
        /\ emitted' = <<Event("move_undone", response')>>
        /\ UNCHANGED threads

\* POST /api/undo
ApiUndo ==
    \E r \in {undo_move(board, move_history)} :
        /\ board' = r.board
        /\ move_history' = r.move_history
        /\ response' = [route |-> "undo", success |-> r.success]
                       @@ Payload(r.board, r.move_history)
        /\ emitted' = IF r.success THEN <<Event("move_undone", response')>> ELSE <<>>
        /\ UNCHANGED threads

\* POST /api/reset
ApiReset ==
    \E r \in {reset_game(board, move_history)} :
        /\ board' = r.board
        /\ move_history' = r.move_history
        /\ response' = [route |-> "reset", success |-> TRUE]
                       @@ Payload(r.board, r.move_history)
        /\ emitted' = <<Event("game_reset", response')>>
        /\ UNCHANGED threads

\* GET /api/board
ApiBoard ==
    /\ response' = [route |-> "board"] @@ Payload(board, move_history)
    /\ emitted' = <<>>
    /\ UNCHANGED <<board, move_history, threads>>

\* GET /api/legal_moves/<square>
ApiLegalMoves(sq) ==
    /\ response' = [route |-> "legal_moves", square |-> sq,
                    legal_moves |-> get_legal_moves_from_square(board, sq)]
    /\ emitted' = <<>>
    /\ UNCHANGED <<board, move_history, threads>>

\* GET /api/history
ApiHistory ==
    /\ response' = [route |-> "history", history |-> move_history]
    /\ emitted' = <<>>
    /\ UNCHANGED <<board, move_history, threads>>

Next ==
    \/ \E r \in MoveRequests(board) : ApiMove(r.from, r.to, r.promotion)
    \/ ApiUndo
    \/ ApiReset
    \/ ApiBoard
    \/ \E sq \in SquareRequests : ApiLegalMoves(sq)
    \/ ApiHistory

Spec == Init /\ [][Next]_vars

(***************************************************************************)
(* Concurrent handling.  Every request runs its view function on a thread  *)
(* of its own against the one global game; nothing in the file takes a     *)
(* lock.  A step is one statement of the source that reads or writes the   *)
(* game (a call into chess.Board counts as one step); the statements       *)
(* that touch only locals are folded into the step before them.            *)
(***************************************************************************)
MaxConcMoves == 1

\* The moves the concurrent clients request, while the move stack and the
\* history are shorter than MaxConcMoves: the two white moves of fool's mate.
ConcMoveRequests == {Req("f2", "f3", None), Req("g2", "g4", None)}

\* Board.push(move) when the origin square is empty: the move and the old
\* state are on the stacks and the clocks have ticked when the assertion
\* on the removed piece fails.
push_failed(b, move) ==
    [b EXCEPT !.move_stack = Append(b.move_stack, move),
              !.stack = Append(b.stack, board_state(b)),
              !.castling_rights = clean_castling_rights(b),
              !.ep_square = {},
              !.halfmove_clock = IF is_zeroing(b, move) THEN 0 ELSE b.halfmove_clock + 1,
              !.fullmove_number = IF b.turn = BLACK THEN b.fullmove_number + 1
                                  ELSE b.fullmove_number]

ReqMove(r) == Move(SQUARE_INDEX[r.from], SQUARE_INDEX[r.to], None)

At(t, route, pc) == threads[t].route = route /\ threads[t].pc = pc

Goto(t, pc) == threads' = [threads EXCEPT ![t].pc = pc]

\* The handler leaves make_move / undo_move with a result and goes on to
\* build the response (lines 150-155, 167-171).
Return(t, success, message) ==
    threads' = [threads EXCEPT ![t].pc = "board", ![t].success = success,
                               ![t].message = message]

\* /api/move, lines 143-148 and 53-70: the request is read and parsed and
\* the move is looked up in the legal moves of the board as it is now.
MoveCheck(t, r) ==
    /\ threads[t].pc = "idle"
    /\ Len(board.move_stack) < MaxConcMoves
    /\ Len(move_history) < MaxConcMoves
    /\ threads' = [threads EXCEPT ![t] =
            [Idle EXCEPT !.route = "move", !.req = r,
                         !.pc = IF is_legal(board, ReqMove(r)) THEN "san" ELSE "board",
                         !.message = "Illegal move"]]
    /\ UNCHANGED <<board, move_history, response, emitted>>

\* line 72: move_san = self.board.san(move); san() asserts that the origin
\* square holds a piece, and the except clause of line 78 returns the failure.
MoveSan(t) ==
    /\ At(t, "move", "san")
    /\ IF board.pieces[ReqMove(threads[t].req).from_square] = None
       THEN Return(t, FALSE, "san() and lan() expect move to be legal or null")
       ELSE threads' = [threads EXCEPT ![t].pc = "push",
                                       ![t].message = san(board, ReqMove(threads[t].req))]
    /\ UNCHANGED <<board, move_history, response, emitted>>

\* line 73: self.board.push(move)
MovePush(t) ==
    /\ At(t, "move", "push")
    /\ IF board.pieces[ReqMove(threads[t].req).from_square] = None
       THEN /\ board' = push_failed(board, ReqMove(threads[t].req))
            /\ Return(t, FALSE, "push() expects move to be pseudo-legal")
       ELSE /\ board' = push(board, ReqMove(threads[t].req))
            /\ Goto(t, "append")
    /\ UNCHANGED <<move_history, response, emitted>>

\* lines 74-75: self.move_history.append(move_san); return True, move_san
MoveAppend(t) ==
    /\ At(t, "move", "append")
    /\ move_history' = Append(move_history, threads[t].message)
    /\ Return(t, TRUE, threads[t].message)
    /\ UNCHANGED <<board, response, emitted>>

\* /api/undo, line 106: if self.move_history
UndoCheck(t) ==
    /\ threads[t].pc = "idle"
    /\ threads' = [threads EXCEPT ![t] =
            [Idle EXCEPT !.route = "undo",
                         !.pc = IF move_history # <<>> THEN "pop" ELSE "board"]]
    /\ UNCHANGED <<board, move_history, response, emitted>>

\* line 107: self.board.pop(); on an empty move stack list.pop raises
\* IndexError, which undo_move does not catch.
UndoPop(t) ==
    /\ At(t, "undo", "pop")
    /\ IF board.move_stack = <<>>
       THEN /\ response' = InternalServerError("undo")
            /\ emitted' = <<>>
            /\ threads' = [threads EXCEPT ![t] = Idle]
            /\ UNCHANGED board
       ELSE /\ board' = pop(board)
            /\ Goto(t, "history_pop")
            /\ UNCHANGED <<response, emitted>>
    /\ UNCHANGED move_history

\* lines 108-109: self.move_history.pop(); return True
UndoHistoryPop(t) ==
    /\ At(t, "undo", "history_pop")
    /\ IF move_history = <<>>
       THEN /\ response' = InternalServerError("undo")
            /\ emitted' = <<>>
            /\ threads' = [threads EXCEPT ![t] = Idle]
            /\ UNCHANGED move_history
       ELSE /\ move_history' = SubSeq(move_history, 1, Len(move_history) - 1)
            /\ Return(t, TRUE, None)
            /\ UNCHANGED <<response, emitted>>
    /\ UNCHANGED board

\* /api/reset, line 114: self.board = chess.Board()
ResetBoard(t) ==
    /\ threads[t].pc = "idle"
    /\ board' = Board
    /\ threads' = [threads EXCEPT ![t] = [Idle EXCEPT !.route = "reset", !.pc = "history"]]
    /\ UNCHANGED <<move_history, response, emitted>>

\* lines 115-116: self.move_history = []
ResetHistory(t) ==
    /\ At(t, "reset", "history")
    /\ move_history' = <<>>
    /\ Return(t, TRUE, None)
    /\ UNCHANGED <<board, response, emitted>>

\* /api/board, line 130: 'board': game.get_board_state()
BoardSnapshot(t) ==
    /\ threads[t].pc = "idle"
    /\ threads' = [threads EXCEPT ![t] =
            [Idle EXCEPT !.route = "board", !.pc = "status",
                         !.snapshot = get_board_state(board)]]
    /\ UNCHANGED <<board, move_history, response, emitted>>

\* lines 153, 169, 184: 'board': game.get_board_state()
Snapshot(t) ==
    /\ threads[t].pc = "board"
    /\ threads' = [threads EXCEPT ![t].pc = "status", ![t].snapshot = get_board_state(board)]
    /\ UNCHANGED <<board, move_history, response, emitted>>

\* The response a handler has built once it has read the status.
ResponseOf(th, status) ==
    (CASE th.route = "move" ->
            [route |-> "move", success |-> th.success, message |-> th.message]
       [] th.route \in {"undo", "reset"} -> [route |-> th.route, success |-> th.success]
       [] th.route = "board" -> [route |-> "board"])
    @@ [board |-> th.snapshot, status |-> status]

EventName(route) ==
    CASE route = "move" -> "move_made" [] route = "undo" -> "move_undone"
      [] route = "reset" -> "game_reset"

\* lines 154-161, 170-176, 185-189, 131-132: 'status': game.get_game_status(),
\* the event if the operation succeeded, and the response.
Respond(t) ==
    /\ threads[t].pc = "status"
    /\ response' = ResponseOf(threads[t], get_game_status(board, move_history))
    /\ emitted' = IF threads[t].route # "board" /\ threads[t].success
                  THEN <<Event(EventName(threads[t].route), response')>> ELSE <<>>
    /\ threads' = [threads EXCEPT ![t] = Idle]
    /\ UNCHANGED <<board, move_history>>

ConcNext ==
    \E t \in Handlers :
        \/ \E r \in ConcMoveRequests : MoveCheck(t, r)
        \/ MoveSan(t)
        \/ MovePush(t)
        \/ MoveAppend(t)
        \/ UndoCheck(t)
        \/ UndoPop(t)
        \/ UndoHistoryPop(t)
        \/ ResetBoard(t)
        \/ ResetHistory(t)
        \/ BoardSnapshot(t)
        \/ Snapshot(t)
        \/ Respond(t)

ConcSpec == Init /\ [][ConcNext]_vars

(***************************************************************************)
(* The properties.                                                         *)
(***************************************************************************)
\* The response is the answer of the route and reports success.
Succeeded(resp, route) ==
    resp.route = route /\ "error" \notin DOMAIN resp /\ resp.success

\* The response is the answer of the route and reports failure.
Failed(resp, route) ==
    resp.route = route /\ "error" \notin DOMAIN resp /\ ~resp.success

\* A position of the stack as a board with no past.
AsBoard(state) == state @@ [move_stack |-> <<>>, stack |-> <<>>]

\* The history holds, oldest first, the notation of every move on the
\* board's move stack, written in the position the move was made in.
HistoryAgrees(b, h) ==
    /\ Len(h) = Len(b.move_stack)
    /\ \A i \in 1..Len(b.move_stack) : h[i] = san(AsBoard(b.stack[i]), b.move_stack[i])

\* C1: a failed attempt_move answers (False, message), it does not raise,
\* and the position, the side to move and the history are as before the call.
C1_FailedMoveChangesNothing ==
    [][response'.route = "move" /\ ~Succeeded(response', "move")
        => /\ Failed(response', "move")
           /\ response'.message # None
           /\ board' = board
           /\ move_history' = move_history]_vars

\* A move has failed on a square name that does not parse, in a game with
\* moves made.
C1_Witness ==
    /\ Failed(response, "move")
    /\ response.message = "'z9' is not in list"
    /\ move_history # <<>>

\* C2: after a successful attempt_move, undo restores the board exactly
\* (placement, side to move, castling rights, en-passant square, clocks,
\* stacks) and the history.
C2_MoveThenUndoRestores ==
    [][Succeeded(response', "move")
        => /\ undo_move(board', move_history').success
           /\ undo_move(board', move_history').board = board
           /\ undo_move(board', move_history').move_history = move_history]_vars

\* An en-passant capture has been made: the undo has a captured pawn, an
\* en-passant square and a clock to restore.
C2_Witness ==
    /\ Succeeded(response, "move")
    /\ response.message = "hxg6"
    /\ board.stack[Len(board.stack)].ep_square # {}

\* C5: undo on an empty history answers false and changes nothing; on a
\* non-empty history it answers true and removes the last entry only.
C5_UndoEmptyOrLast ==
    [][response'.route = "undo"
        => IF move_history = <<>>
           THEN Failed(response', "undo") /\ board' = board /\ move_history' = move_history
           ELSE /\ Succeeded(response', "undo")
                /\ move_history' = SubSeq(move_history, 1, Len(move_history) - 1)]_vars

\* An undo has been refused on an empty history.
C5_Witness == Failed(response, "undo") /\ move_history = <<>> /\ board.move_stack = <<>>

\* C6: after a reset the session is the standard starting position with
\* white to move and an empty history, the response says so, and a second
\* reset yields the same snapshot, status and history.
C6_ResetYieldsStart ==
    response.route = "reset"
        => /\ Succeeded(response, "reset")
           /\ board.pieces = STARTING_PIECES /\ board.turn = WHITE
           /\ board = Board
           /\ move_history = <<>>
           /\ response.board = get_board_state(Board)
           /\ response.status.turn = "white" /\ response.status.move_count = 0
           /\ reset_game(board, move_history).move_history = <<>>
           /\ Payload(reset_game(board, move_history).board,
                      reset_game(board, move_history).move_history)
                = [board |-> response.board, status |-> response.status]

\* A reset has been answered.
C6_Witness == Succeeded(response, "reset") /\ emitted # <<>> /\ move_history = <<>>

\* C7: a successful move, a successful undo and every reset emit exactly
\* one event, whose payload is the response with the snapshot and the
\* status of the resulting game; a failed move or undo emits none.
C7_BroadcastOnSuccess ==
    IF response.route \in {"move", "undo", "reset"}
    THEN IF Succeeded(response, response.route)
         THEN /\ emitted = <<Event(EventName(response.route), response)>>
              /\ response.board = get_board_state(board)
              /\ response.status = get_game_status(board, move_history)
         ELSE emitted = <<>> /\ response.route # "reset"
    ELSE TRUE

\* A successful undo has emitted its one event.
C7_Witness ==
    /\ Succeeded(response, "undo")
    /\ Len(emitted) = 1 /\ emitted[1].event = "move_undone"
    /\ move_history # <<>>

\* C8: the history is the notations of the moves applied and not undone
\* since the last reset, oldest first; move_count is its length and
\* last_move its last element, or none.
C8_HistoryIsAppliedMoves ==
    /\ HistoryAgrees(board, move_history)
    /\ get_game_status(board, move_history).move_count = Len(move_history)
    /\ get_game_status(board, move_history).last_move
         = (IF move_history = <<>> THEN None ELSE move_history[Len(move_history)])
    /\ response.route = "history" => response.history = move_history

\* A move has been undone and three remain.
C8_Witness ==
    /\ Succeeded(response, "undo")
    /\ move_history = <<"e4", "e5", "Qh5">>

\* C9: when the status reports checkmate the winner is the side not to
\* move and the result is "<Winner> wins by checkmate!"; after f2f3, e7e5,
\* g2g4, d8h4 the status is checkmate, black wins.
C9_CheckmateWinner ==
    /\ get_game_status(board, move_history).is_checkmate
        => /\ "winner" \in DOMAIN get_game_status(board, move_history)
           /\ get_game_status(board, move_history).winner
                = (IF board.turn = WHITE THEN "black" ELSE "white")
           /\ get_game_status(board, move_history).result
                = (IF board.turn = WHITE THEN "Black wins by checkmate!"
                   ELSE "White wins by checkmate!")
    /\ board.move_stack = GameMoves[FoolsMate]
        => /\ get_game_status(board, move_history).is_checkmate
           /\ get_game_status(board, move_history).winner = "black"
           /\ get_game_status(board, move_history).result = "Black wins by checkmate!"

\* Fool's mate has been played.
C9_Witness ==
    /\ board.move_stack = GameMoves[FoolsMate]
    /\ Succeeded(response, "move")
    /\ response.status.is_checkmate

\* C10: is_checkmate is "in check and no legal move", is_stalemate is "not
\* in check and no legal move", never both, and either implies is_game_over.
C10_StatusFlags ==
    /\ get_game_status(board, move_history).is_check
         = (\E k \in SQUARES : /\ board.pieces[k] = symbol("k", board.turn)
                               /\ is_attacked_by(board.pieces, ~board.turn, k))
    /\ get_game_status(board, move_history).is_checkmate
         = (get_game_status(board, move_history).is_check /\ LegalMoves(board) = {})
    /\ get_game_status(board, move_history).is_stalemate
         = (~get_game_status(board, move_history).is_check /\ LegalMoves(board) = {})
    /\ ~(get_game_status(board, move_history).is_checkmate
         /\ get_game_status(board, move_history).is_stalemate)
    /\ (get_game_status(board, move_history).is_checkmate
        \/ get_game_status(board, move_history).is_stalemate)
        => get_game_status(board, move_history).is_game_over

\* The game has ended in stalemate.
C10_Witness ==
    /\ LegalMoves(board) = {}
    /\ ~is_check(board)
    /\ Succeeded(response, "move")
    /\ response.status.is_stalemate

\* A handler is inside make_move, undo_move or reset_game: it has run the
\* first statement of the method that reads or writes the game and not yet
\* the last.
InMutation(t) ==
    \/ threads[t].route = "move" /\ threads[t].pc \in {"san", "push", "append"}
    \/ threads[t].route = "undo" /\ threads[t].pc \in {"pop", "history_pop"}
    \/ threads[t].route = "reset" /\ threads[t].pc = "history"

\* C3: at most one of attempt_move, undo and reset is in flight at a time.
C3_MutationsSerialized ==
    \A t1, t2 \in Handlers : InMutation(t1) /\ InMutation(t2) => t1 = t2

\* C4: a query never reads the session mid-mutation: when /api/board is
\* about to read the status, the board and the history agree.
C4_QueriesSeeConsistentGame ==
    \A t \in Handlers :
        threads[t].route = "board" /\ threads[t].pc = "status"
            => HistoryAgrees(board, move_history)

\* C11: while the status says the game is not over it carries neither a
\* result nor a winner.
C11_NoResultBeforeEnd ==
    ~get_game_status(board, move_history).is_game_over
        => /\ "result" \notin DOMAIN get_game_status(board, move_history)
           /\ "winner" \notin DOMAIN get_game_status(board, move_history)

\* The side to move is in check and the game goes on.
C11_Witness ==
    /\ get_game_status(board, move_history).is_check
    /\ ~get_game_status(board, move_history).is_game_over
    /\ Succeeded(response, "move")

\* C12: /api/legal_moves answers without failing and changes neither the
\* board nor the history; for a name that does not parse, an empty square
\* and a piece of the side not to move the list is empty, otherwise its
\* elements are exactly the destinations of the legal moves from the square.
C12_MovesFrom ==
    [][response'.route = "legal_moves"
        => /\ board' = board /\ move_history' = move_history
           /\ "error" \notin DOMAIN response'
           /\ DOMAIN response'.legal_moves
                = (IF response'.square \notin DOMAIN SQUARE_INDEX THEN {}
                   ELSE IF board.pieces[SQUARE_INDEX[response'.square]] = None THEN {}
                   ELSE IF color_at(board.pieces, SQUARE_INDEX[response'.square]) # board.turn
                   THEN {}
                   ELSE {SQUARE_NAMES[m.to_square] :
                            m \in {c \in LegalMoves(board) :
                                     c.from_square = SQUARE_INDEX[response'.square]}})]_vars

\* The destinations of a piece of the side not to move have been asked for.
C12_Witness ==
    /\ response.route = "legal_moves"
    /\ response.square = "e2"
    /\ board.pieces[SQUARE_INDEX["e2"]] = "P"
    /\ board.turn = BLACK
    /\ response.legal_moves = <<>>

\* The pawn moves to the last rank that are legal once a piece is named,
\* as the from and to squares of the request.
PromotionSteps(b) ==
    {<<m.from_square, m.to_square>> :
        m \in UNION {LegalMovesFrom(b, s) :
                s \in {q \in SQUARES : /\ b.pieces[q] = symbol("p", b.turn)
                                       /\ square_rank(q) = (IF b.turn = WHITE THEN 6 ELSE 1)}}}

\* The outcome of make_move is a failure that left the game as it was, or
\* the queen promotion applied.
FailsOrQueens(r, b, h, step) ==
    \/ ~r.raised /\ ~r.success /\ r.message # None /\ r.board = b /\ r.move_history = h
    \/ /\ ~r.raised /\ r.success
       /\ r.board = push(b, Move(step[1], step[2], "q"))
       /\ r.move_history = Append(h, san(b, Move(step[1], step[2], "q")))

\* C13: a pawn move to the last rank requested with no promotion letter, or
\* with one that is not q, r, b or n, has one outcome (make_move is a
\* function of the game and the request): it fails and leaves board and
\* history unchanged, or it is applied as a queen promotion.
C13_PromotionWithoutHint ==
    \A step \in PromotionSteps(board) : \A hint \in {None, "", "x"} :
        FailsOrQueens(make_move(board, move_history, SQUARE_NAMES[step[1]],
                                SQUARE_NAMES[step[2]], hint),
                      board, move_history, step)

\* The pawn on g7 can promote by taking on h8, and the move has been
\* requested without a piece: it failed.
C13_Witness ==
    /\ <<SQUARE_INDEX["g7"], SQUARE_INDEX["h8"]>> \in PromotionSteps(board)
    /\ Failed(response, "move")
    /\ response.message = "Illegal move"

\* C14: every move on the board's move stack was legal in the position it
\* was pushed onto, however the handlers interleave.
C14_AppliedMovesWereLegal ==
    \A i \in 1..Len(board.move_stack) :
        is_legal(AsBoard(board.stack[i]), board.move_stack[i])

\* C15: the board and the status in the payload of a move, undo or reset
\* request come from one state, the one its own operation left: when the
\* handler has taken the board snapshot and goes on to read the status,
\* the board is still the one it took the snapshot of.
C15_PayloadFromOneState ==
    \A t \in Handlers :
        threads[t].route \in {"move", "undo", "reset"} /\ threads[t].pc = "status"
            => threads[t].snapshot = get_board_state(board)

\* C16: whenever the status says the game is over, by checkmate, stalemate
\* or any draw the board counts as the end, it carries a result string.
C16_GameOverHasResult ==
    get_game_status(board, move_history).is_game_over
        => "result" \in DOMAIN get_game_status(board, move_history)

\* C17: with one request handled at a time, the history is as long as the
\* board's move stack, and white is to move exactly when that length is even.
C17_LengthAndParity ==
    /\ Len(move_history) = Len(board.move_stack)
    /\ (board.turn = WHITE) = (Len(move_history) % 2 = 0)

\* Moves have been made and one undone: three remain and black is to move.
C17_Witness ==
    /\ Succeeded(response, "undo")
    /\ Len(move_history) = 3
    /\ board.turn = BLACK

\* The board after the first k moves of ms, played from the start.
RECURSIVE Replay(_, _)
Replay(ms, k) == IF k = 0 THEN Board ELSE push(Replay(ms, k - 1), ms[k])

\* One more undo, unless one has failed.
UndoAgain(r) == IF r.success THEN undo_move(r.board, r.move_history) ELSE r

\* The outcome of k consecutive calls of undo_move.
RECURSIVE UndoTimes(_, _, _)
UndoTimes(b, h, k) ==
    IF k = 0 THEN [success |-> TRUE, board |-> b, move_history |-> h]
    ELSE UndoAgain(UndoTimes(b, h, k - 1))

\* C18: from n history entries, n undos in a row all succeed, the k-th
\* leaving the board as it was before the last k moves and the history
\* without them; the n-th leaves the starting position with white to move
\* and an empty history, and one more undo fails.
C18_UndoAllTheWay ==
    /\ \A k \in 1..Len(move_history) :
        /\ UndoTimes(board, move_history, k).success
        /\ UndoTimes(board, move_history, k).board
             = Replay(board.move_stack, Len(move_history) - k)
        /\ UndoTimes(board, move_history, k).move_history
             = SubSeq(move_history, 1, Len(move_history) - k)
    /\ UndoTimes(board, move_history, Len(move_history)).board = Board
    /\ UndoTimes(board, move_history, Len(move_history)).move_history = <<>>
    /\ ~UndoTimes(board, move_history, Len(move_history) + 1).success

\* Undo has been called with twelve moves made, an en-passant capture and
\* a promotion among them.
C18_Witness ==
    /\ Succeeded(response, "undo")
    /\ Len(move_history) = 11
    /\ move_history[5] = "hxg6"
    /\ move_history[9] = "gxh8=Q"

\* The position is checkmate or stalemate.
Ended(b) == is_checkmate(b) \/ is_stalemate(b)

\* The requests tried on an ended game: the probes, and every move of a
\* piece of the side to move to any square, bare and as a queen promotion.
EndedRequests(b) ==
    ProbeRequests
    \cup {Req(SQUARE_NAMES[f], SQUARE_NAMES[t], p) :
            f \in {q \in SQUARES : b.pieces[q] # None /\ color_at(b.pieces, q) = b.turn},
            t \in SQUARES, p \in {None, "q"}}

\* The request names two squares and its promotion is a string or absent.
WellFormed(req) ==
    /\ req.from \in DOMAIN SQUARE_INDEX
    /\ req.to \in DOMAIN SQUARE_INDEX
    /\ req.promotion # NotAString

\* make_move has failed and left the game as it was.
Refused(r, b, h) ==
    ~r.raised /\ ~r.success /\ r.message # None /\ r.board = b /\ r.move_history = h

PromotionLetters == {"q", "r", "b", "n", "Q", "R", "B", "N"}

\* C20: a letter of q, r, b, n, in either case, is attached to the move
\* whatever the move is, so a request that carries one for a legal move
\* that is not a promotion fails with "Illegal move" and leaves the board
\* and the history as they were.
C20_LetterOnPlainMoveFails ==
    \A m \in {c \in LegalMoves(board) : c.promotion = None} :
        \A letter \in PromotionLetters :
            /\ Refused(make_move(board, move_history, SQUARE_NAMES[m.from_square],
                                 SQUARE_NAMES[m.to_square], letter),
                       board, move_history)
            /\ make_move(board, move_history, SQUARE_NAMES[m.from_square],
                         SQUARE_NAMES[m.to_square], letter).message = "Illegal move"

\* e2e4 is legal and has been refused with a promotion letter.
C20_Witness ==
    /\ board = Board
    /\ is_legal(board, Move(SQUARE_INDEX["e2"], SQUARE_INDEX["e4"], None))
    /\ Failed(response, "move")
    /\ response.message = "Illegal move"
    /\ response.status.move_count = 0

====
